---------------------------- MODULE Spec2Model ----------------------------
(***************************************************************************)
(* One node of pyblockchain: the BlockChain object of blockchain.py (chain, *)
(* transaction pool, neighbour list, the two task semaphores) driven by the *)
(* request handlers of blockchain_server.py and by the threading.Timer      *)
(* callbacks.  Every blocking call of the code (a requests.* call, the      *)
(* proof-of-work loop) ends an atomic step, so the steps of concurrent      *)
(* executions interleave as the threads of the Flask server do.             *)
(*                                                                         *)
(* SHA-256 is abstracted by a positional digest over a small alphabet: the  *)
(* digest is still a function of every field json.dumps serializes, it is   *)
(* rendered as a fixed-width digit string, and valid_proof tests its first  *)
(* MINING_DIFFICULTY characters exactly as the code does.                   *)
(***************************************************************************)
EXTENDS Integers, Sequences, FiniteSets, TLC

(***************************************************************************)
(* Program constants                                                       *)
(***************************************************************************)
MINING_DIFFICULTY == 3

MINING_SENDER == "THE BLOCKCHAIN"

MINING_REWARD == 1

\* BLOCKCHAIN_PORT_RANGE = (5000, 5003), NEIGHBOURS_IP_RANGE_NUM = (0, 1):
\* find_neighbours probes range(5000, 5003) on the node's own host only.
PORT_RANGE_START == 5000

PORT_RANGE_END == 5003

\* port of this node (default of the -p option)
port == 5000

\* blockchain_address of this node (the miner's wallet address)
blockchain_address == "miner"

(***************************************************************************)
(* Bounds of the model                                                     *)
(***************************************************************************)
\* size of the digest alphabet (16 for a hex digest)
HashBase == 2

\* number of characters of a digest (64 for SHA-256)
HashLen == 5

\* time.time() takes the values 1..MaxTime after construction (0)
MaxTime == 1

\* mining starts only while the chain is shorter than this ...
MaxChain == 3

\* ... and, where executions of mining() overlap, shorter than this
MaxRaceChain == 2

\* longest chain a neighbour answers with
MaxPeerLen == 3

\* /transactions requests arrive while fewer than this many submitted
\* transactions are pending ...
MaxPool == 2

\* ... and, where executions of mining() overlap, fewer than this many
MaxRacePool == 1

\* concurrent /mine request handlers
MaxMineRequests == 1

\* pending threading.Timer objects per task
MaxTimers == 2

\* largest value of a submitted transaction
MaxValue == 1

\* nonces 0..MaxTamper and as many digests are written over the fields of
\* the chains handed to valid_chain
MaxTamper == 3

(***************************************************************************)
(* Canonical codec: json.dumps(block, sort_keys=True) and SHA-256           *)
(***************************************************************************)
HashSpace == HashBase ^ HashLen

Addresses == {MINING_SENDER, blockchain_address, "A"}

AddrCode(a) ==
    CASE a = MINING_SENDER -> 1
      [] a = blockchain_address -> 2
      [] OTHER -> 3

RECURSIVE Flatten(_)
Flatten(ss) == IF ss = <<>> THEN <<>> ELSE Head(ss) \o Flatten(Tail(ss))

\* json.dumps(transaction, sort_keys=True): recipient, sender, value
TxItems(t) ==
    << AddrCode(t.recipient_blockchain_address),
       AddrCode(t.sender_blockchain_address),
       t.value >>

TxListItems(ts) == <<Len(ts)>> \o Flatten([i \in 1..Len(ts) |-> TxItems(ts[i])])

\* json.dumps(d, sort_keys=True) of a block, a guess block or {}: the values
\* in key order nonce, previous_hash, timestamp, transactions (absent keys
\* contribute nothing)
Dumps(d) ==
    (IF "nonce" \in DOMAIN d THEN <<d.nonce>> ELSE <<>>)
    \o (IF "previous_hash" \in DOMAIN d THEN d.previous_hash ELSE <<>>)
    \o (IF "timestamp" \in DOMAIN d THEN <<d.timestamp>> ELSE <<>>)
    \o (IF "transactions" \in DOMAIN d THEN TxListItems(d.transactions) ELSE <<>>)

RECURSIVE DigestFrom(_, _)
DigestFrom(h, items) ==
    IF items = <<>> THEN h
    ELSE DigestFrom((h * (HashBase + 1) + Head(items) + 1) % HashSpace, Tail(items))

\* hexdigest(): the digest as HashLen characters, most significant first
HexDigest(n) == [i \in 1..HashLen |-> (n \div (HashBase ^ (HashLen - i))) % HashBase]

\* BlockChain.hash
hash(block) == HexDigest(DigestFrom(1, Dumps(block)))

EmptyMap == [x \in {} |-> 0]

Zeros(k) == [i \in 1..k |-> 0]

\* BlockChain.valid_proof
valid_proof(transactions, previous_hash, nonce, difficulty) ==
    LET guess_block == [transactions |-> transactions, nonce |-> nonce,
                        previous_hash |-> previous_hash]
        guess_hash == hash(guess_block)
    IN  SubSeq(guess_hash, 1, difficulty) = Zeros(difficulty)

\* a search that stops at a nonce with one leading zero less
RECURSIVE PowSearch_easier(_, _, _)
PowSearch_easier(transactions, previous_hash, nonce) ==
    IF valid_proof(transactions, previous_hash, nonce, MINING_DIFFICULTY - 1)
    THEN nonce
    ELSE PowSearch_easier(transactions, previous_hash, nonce + 1)

\* proof_of_work, lines 156-159: the loop from the given nonce on
RECURSIVE PowSearch(_, _, _)
PowSearch(transactions, previous_hash, nonce) ==
    IF valid_proof(transactions, previous_hash, nonce, MINING_DIFFICULTY)
    THEN nonce
    ELSE PowSearch(transactions, previous_hash, nonce + 1)

Block(timestamp, transactions, nonce, previous_hash) ==
    [timestamp |-> timestamp, transactions |-> transactions,
     nonce |-> nonce, previous_hash |-> previous_hash]

Transaction(sender, recipient, value) ==
    [sender_blockchain_address |-> sender,
     recipient_blockchain_address |-> recipient,
     value |-> value]

Last(s) == s[Len(s)]

\* a valid_chain that checks the links and forgets the proofs
RECURSIVE ValidFrom_links_only(_, _)
ValidFrom_links_only(c, i) ==
    IF i > Len(c) THEN TRUE
    ELSE IF c[i].previous_hash # hash(c[i - 1]) THEN FALSE
    ELSE ValidFrom_links_only(c, i + 1)

\* valid_chain, lines 204-216: the loop from current_index = i (1-based here)
RECURSIVE ValidFrom(_, _)
ValidFrom(c, i) ==
    IF i > Len(c) THEN TRUE
    ELSE IF c[i].previous_hash # hash(c[i - 1]) THEN FALSE
    ELSE IF ~valid_proof(c[i].transactions, c[i].previous_hash, c[i].nonce,
                         MINING_DIFFICULTY) THEN FALSE
    ELSE ValidFrom(c, i + 1)

\* BlockChain.valid_chain
valid_chain(c) == ValidFrom(c, 2)

RECURSIVE SumSeq(_)
SumSeq(s) == IF s = <<>> THEN 0 ELSE Head(s) + SumSeq(Tail(s))

\* a balance that counts what was received and forgets what was sent
TxDelta_received_only(t, a) ==
    IF a = t.recipient_blockchain_address THEN t.value ELSE 0

\* calculate_total_amount, lines 192-198: one transaction's contribution
TxDelta(t, a) ==
    (IF a = t.recipient_blockchain_address THEN t.value ELSE 0)
    - (IF a = t.sender_blockchain_address THEN t.value ELSE 0)

\* BlockChain.calculate_total_amount
calculate_total_amount(c, a) ==
    SumSeq([i \in 1..Len(c) |->
              SumSeq([j \in 1..Len(c[i].transactions) |->
                        TxDelta(c[i].transactions[j], a)])])

(***************************************************************************)
(* Signatures (ecdsa.VerifyingKey / wallet.Transaction.generate_signature)  *)
(***************************************************************************)
PrivateKeys == {"k1", "k2"}

\* SigningKey.get_verifying_key().to_string().hex()
PublicKeyOf(k) == <<"pub", k>>

\* a public key string that is no hex / has the wrong length
MalformedKey == <<"malformed", "">>

NoSignature == [kind |-> "none", key |-> "", msg |-> <<>>]

MalformedSignature == [kind |-> "malformed", key |-> "", msg |-> <<>>]

\* wallet.Transaction.generate_signature: signs the digest of str(transaction)
generate_signature(k, t) == [kind |-> "sig", key |-> k, msg |-> TxItems(t)]

\* ECDSA: the signature was made over this transaction's digest with the
\* private key of this public key
SignatureVerifies(sender_public_key, signature, transaction) ==
    /\ signature.kind = "sig"
    /\ sender_public_key = PublicKeyOf(signature.key)
    /\ signature.msg = TxItems(transaction)

\* BlockChain.verify_transaction_signature: "True" when VerifyingKey.verify
\* accepts.  In every other case bytes.fromhex (TypeError, ValueError),
\* VerifyingKey.from_string (MalformedPointError) or VerifyingKey.verify
\* (BadSignatureError) raises, and nothing in the method catches it.
verify_transaction_signature(sender_public_key, signature, transaction) ==
    IF SignatureVerifies(sender_public_key, signature, transaction)
    THEN "True"
    ELSE "raise"

(***************************************************************************)
(* Inputs                                                                  *)
(***************************************************************************)
Request(sender, recipient, value, pk, sig) ==
    [sender_blockchain_address |-> sender,
     recipient_blockchain_address |-> recipient,
     value |-> value, sender_public_key |-> pk, signature |-> sig]

Values == 1..MaxValue

\* the signature field of a request body: missing, no hex string, a
\* signature of this transaction by the key pair of the request or by
\* another one, a signature of another transaction
SignatureInputs(sender, recipient, value) ==
    { NoSignature, MalformedSignature,
      generate_signature("k1", Transaction(sender, recipient, value)),
      generate_signature("k2", Transaction(sender, recipient, value)),
      generate_signature("k1", Transaction(sender, recipient, value + 1)) }

\* every request body the handlers of /transactions are driven with
AllRequests ==
    UNION { { Request(s, "A", v, PublicKeyOf("k1"), sig) :
                sig \in SignatureInputs(s, "A", v) } :
            s \in Addresses, v \in Values }
    \cup { Request(s, "A", v, MalformedKey,
                   generate_signature("k1", Transaction(s, "A", v))) :
             s \in Addresses, v \in Values }

\* the request bodies POST /transactions is driven with
FewRequests ==
    { Request(s, "A", v, PublicKeyOf("k1"),
              generate_signature("k1", Transaction(s, "A", v))) :
        s \in {MINING_SENDER, blockchain_address}, v \in Values }

\* the request body used while executions of mining() are in flight
RaceRequests ==
    { Request(MINING_SENDER, "A", MaxValue, PublicKeyOf("k1"), NoSignature) }

\* chains a neighbour may answer GET /chain with
PeerGenesis(t) == Block(t, <<>>, 0, hash(EmptyMap))

PeerBlock(c) ==
    LET txs == <<Transaction(MINING_SENDER, "A", MINING_REWARD)>>
        prev == hash(Last(c))
    IN  Block(1, txs, PowSearch(txs, prev, 0), prev)

RECURSIVE HonestChain(_, _)
HonestChain(t, n) ==
    IF n <= 1 THEN <<PeerGenesis(t)>>
    ELSE LET c == HonestChain(t, n - 1) IN Append(c, PeerBlock(c))

\* the last block's nonce replaced by one that is no proof
BadProofChain(t, n) ==
    LET c == HonestChain(t, n)
        b == Last(c)
        bad == CHOOSE k \in 0..HashSpace :
                 ~valid_proof(b.transactions, b.previous_hash, k, MINING_DIFFICULTY)
    IN  [c EXCEPT ![n] = [b EXCEPT !.nonce = bad]]

\* the last block mined on a hash that is not its predecessor's
BadLinkChain(t, n) ==
    LET c == HonestChain(t, n)
        b == Last(c)
        wrong == CHOOSE h \in {HexDigest(k) : k \in 0..(HashSpace - 1)} :
                   h # hash(c[n - 1])
    IN  [c EXCEPT ![n] = [b EXCEPT !.previous_hash = wrong,
                                   !.nonce = PowSearch(b.transactions, wrong, 0)]]

PeerChains ==
    { HonestChain(t, n) : t \in 0..MaxTime, n \in 1..MaxPeerLen }
    \cup { BadProofChain(0, n) : n \in 2..MaxPeerLen }
    \cup { BadLinkChain(0, n) : n \in 2..MaxPeerLen }

\* the digests and nonces written over a field of a candidate chain
TamperDigests == {HexDigest(k) : k \in 0..MaxTamper}

TamperNonces == 0..MaxTamper

\* an honestly mined chain in which one field of one block was replaced
TamperedChains ==
    UNION { UNION { { [c EXCEPT ![i].nonce = k] : k \in TamperNonces }
                    \cup { [c EXCEPT ![i].previous_hash = h] : h \in TamperDigests }
                    \cup { [c EXCEPT ![i].transactions = <<>>] } :
                    i \in 1..Len(c) } :
            c \in { HonestChain(t, n) : t \in 0..MaxTime, n \in 1..MaxPeerLen } }

\* a chain of n blocks honestly mined on the first block g
RECURSIVE ChainOn(_, _)
ChainOn(g, n) ==
    IF n <= 1 THEN <<g>>
    ELSE LET c == ChainOn(g, n - 1) IN Append(c, PeerBlock(c))

\* chains mined on a first block with any nonce and previous_hash
ForeignChains ==
    { ChainOn(Block(0, <<>>, k, h), n) :
        k \in TamperNonces, h \in TamperDigests, n \in 1..MaxPeerLen }

\* the chains valid_chain is handed
CandidateChains == PeerChains \cup TamperedChains \cup ForeignChains

\* requests.get(...): status 0 stands for an exception raised by requests
\* (ConnectionError, Timeout), otherwise the HTTP status of the answer
Responses ==
    { [status_code |-> 0, chain |-> <<>>], [status_code |-> 500, chain |-> <<>>] }
    \cup { [status_code |-> 200, chain |-> c] : c \in PeerChains }

\* the addresses find_neighbours probes: every port of the range on the
\* node's host, in range order
PortSeq == [i \in 1..(PORT_RANGE_END - PORT_RANGE_START) |-> PORT_RANGE_START + i - 1]

\* utils.find_neighbours: the probed addresses that answer, except our own
find_neighbours(reachable) ==
    SelectSeq(PortSeq, LAMBDA p : p \in reachable /\ p # port)

(***************************************************************************)
(* State                                                                   *)
(***************************************************************************)
VARIABLES
    chain,                      \* self.chain
    transaction_pool,           \* self.transaction_pool
    neighbours,                 \* self.neighbours
    mining_semaphore,           \* self.mining_semaphore (its counter)
    sync_neighbours_semaphore,  \* self.sync_neighbours_semaphore
    mining_timers,              \* started, not yet fired Timer(start_mining)
    sync_timers,                \* started, not yet fired Timer(sync_neighbours)
    miner,                      \* the executions of mining(): 0 is the one
                                \* inside start_mining, 1.. are /mine handlers
    resolver,                   \* the execution of resolve_conflicts
    syncer,                     \* the execution inside sync_neighbours
    ret,                        \* what the step just taken returned
    hist                        \* history: the ledger when the running
                                \* operation began, the answers it received

vars == << chain, transaction_pool, neighbours, mining_semaphore,
           sync_neighbours_semaphore, mining_timers, sync_timers,
           miner, resolver, syncer, ret, hist >>

Miners == 0..MaxMineRequests

MinerIdle == [pc |-> "idle", transactions |-> <<>>, nonce |-> 0, previous_hash |-> <<>>]

ResolverIdle == [pc |-> "idle", longest_chain |-> <<>>, max_length |-> 0, todo |-> <<>>]

NoRet == [op |-> "none", arg |-> <<>>, val |-> "none"]

Ret(op, arg, val) == [op |-> op, arg |-> arg, val |-> val]

NoHist == [pool |-> <<>>, chain |-> <<>>, responses |-> <<>>]

\* a constructor that creates the semaphores with no permit
Init_semaphores_taken ==
    /\ chain = << Block(0, <<>>, 0, hash(EmptyMap)) >>
    /\ transaction_pool = <<>>
    /\ neighbours = <<>>
    /\ mining_semaphore = 0
    /\ sync_neighbours_semaphore = 0
    /\ mining_timers = 0
    /\ sync_timers = 0
    /\ miner = [m \in Miners |-> MinerIdle]
    /\ resolver = ResolverIdle
    /\ syncer = "idle"
    /\ ret = NoRet
    /\ hist = NoHist

\* BlockChain.__init__: the genesis block is created at time 0
Init ==
    /\ chain = << Block(0, <<>>, 0, hash(EmptyMap)) >>
    /\ transaction_pool = <<>>
    /\ neighbours = <<>>
    /\ mining_semaphore = 1
    /\ sync_neighbours_semaphore = 1
    /\ mining_timers = 0
    /\ sync_timers = 0
    /\ miner = [m \in Miners |-> MinerIdle]
    /\ resolver = ResolverIdle
    /\ syncer = "idle"
    /\ ret = NoRet
    /\ hist = NoHist

\* an acquire that succeeds whatever the counter is
acquire_always(semaphore) == TRUE

\* threading.Semaphore.acquire(blocking=False): whether it succeeds
acquire(semaphore) == semaphore > 0

(***************************************************************************)
(* Ledger: /transactions handlers                                          *)
(***************************************************************************)
RequestTransaction(req) ==
    Transaction(req.sender_blockchain_address,
                req.recipient_blockchain_address, req.value)

\* BlockChain.add_transaction, its return value ("raised": an exception
\* leaves the method) ...
add_transaction_val(req) ==
    IF req.sender_blockchain_address = MINING_SENDER THEN "True"
    ELSE LET verified == verify_transaction_signature(
                             req.sender_public_key, req.signature,
                             RequestTransaction(req))
         IN  IF verified = "raise" THEN "raised"
             ELSE IF verified = "True"
                  THEN IF calculate_total_amount(chain, req.sender_blockchain_address)
                            < req.value
                       THEN "False"
                       ELSE "True"
                  ELSE "False"

\* an add_transaction that does not admit what is pending already
add_transaction_pool_once(req) ==
    IF /\ add_transaction_val(req) = "True"
       /\ \A i \in 1..Len(transaction_pool) :
             transaction_pool[i] # RequestTransaction(req)
    THEN Append(transaction_pool, RequestTransaction(req))
    ELSE transaction_pool

\* ... and the pool it leaves
add_transaction_pool(req) ==
    IF add_transaction_val(req) = "True"
    THEN Append(transaction_pool, RequestTransaction(req))
    ELSE transaction_pool

\* PUT /transactions: add_transaction
AddTransactionRequest(req) ==
    /\ transaction_pool' = add_transaction_pool(req)
    /\ ret' = Ret("add_transaction", req, add_transaction_val(req))
    /\ UNCHANGED << chain, neighbours, mining_semaphore, sync_neighbours_semaphore,
                    mining_timers, sync_timers, miner, resolver, syncer >>

\* POST /transactions: create_transaction = add_transaction, then a
\* requests.put to every neighbour; delivered = FALSE: one of them raises
CreateTransactionRequest(req, delivered) ==
    /\ transaction_pool' = add_transaction_pool(req)
    /\ ret' = Ret("create_transaction", req,
                  IF add_transaction_val(req) = "True" /\ neighbours # <<>> /\ ~delivered
                  THEN "raised"
                  ELSE add_transaction_val(req))
    /\ UNCHANGED << chain, neighbours, mining_semaphore, sync_neighbours_semaphore,
                    mining_timers, sync_timers, miner, resolver, syncer >>

\* DELETE /transactions
ClearPoolRequest ==
    /\ transaction_pool # <<>>
    /\ transaction_pool' = <<>>
    /\ ret' = Ret("clear_pool", <<>>, "True")
    /\ UNCHANGED << chain, neighbours, mining_semaphore, sync_neighbours_semaphore,
                    mining_timers, sync_timers, miner, resolver, syncer >>

(***************************************************************************)
(* Mining                                                                  *)
(***************************************************************************)
\* the transaction mining() adds at line 165
RewardTransaction == Transaction(MINING_SENDER, blockchain_address, MINING_REWARD)

\* mining(), line 165: add_transaction(MINING_SENDER, own address, reward)
MiningAddReward(m) ==
    /\ transaction_pool' = Append(transaction_pool, RewardTransaction)
    /\ miner' = [miner EXCEPT ![m].pc = "pow"]

\* GET /mine: the handler calls mining() directly
MineRequest(m) ==
    /\ m # 0
    /\ miner[m].pc = "idle"
    /\ MiningAddReward(m)
    /\ ret' = NoRet
    /\ UNCHANGED << chain, neighbours, mining_semaphore, sync_neighbours_semaphore,
                    mining_timers, sync_timers, resolver, syncer >>

\* start_mining, line 180, called by run() or GET /mine/start: acquire succeeds
StartMiningRequest ==
    /\ acquire(mining_semaphore)
    /\ mining_timers < MaxTimers
    /\ mining_semaphore' = mining_semaphore - 1
    /\ miner' = [miner EXCEPT ![0].pc = "acquired"]
    /\ ret' = NoRet
    /\ UNCHANGED << chain, transaction_pool, neighbours, sync_neighbours_semaphore,
                    mining_timers, sync_timers, resolver, syncer >>

\* start_mining, lines 180-181: acquire(blocking=False) fails, nothing is done
StartMiningBusy ==
    /\ ~acquire(mining_semaphore)
    /\ ret' = Ret("start_mining", <<>>, "None")
    /\ UNCHANGED << chain, transaction_pool, neighbours, mining_semaphore,
                    sync_neighbours_semaphore, mining_timers, sync_timers,
                    miner, resolver, syncer >>

\* a Timer(MINING_TIMER_SEC, self.start_mining) fires: acquire succeeds
MiningTimerFires ==
    /\ mining_timers > 0
    /\ acquire(mining_semaphore)
    /\ mining_timers' = mining_timers - 1
    /\ mining_semaphore' = mining_semaphore - 1
    /\ miner' = [miner EXCEPT ![0].pc = "acquired"]
    /\ ret' = NoRet
    /\ UNCHANGED << chain, transaction_pool, neighbours, sync_neighbours_semaphore,
                    sync_timers, resolver, syncer >>

\* a Timer fires while the semaphore is held
MiningTimerFiresBusy ==
    /\ mining_timers > 0
    /\ ~acquire(mining_semaphore)
    /\ mining_timers' = mining_timers - 1
    /\ ret' = Ret("start_mining", <<>>, "None")
    /\ UNCHANGED << chain, transaction_pool, neighbours, mining_semaphore,
                    sync_neighbours_semaphore, sync_timers, miner, resolver, syncer >>

\* start_mining, line 184: the semaphore holder enters mining()
StartMiningBody ==
    /\ miner[0].pc = "acquired"
    /\ MiningAddReward(0)
    /\ ret' = NoRet
    /\ UNCHANGED << chain, neighbours, mining_semaphore, sync_neighbours_semaphore,
                    mining_timers, sync_timers, resolver, syncer >>

\* proof_of_work, line 154: transactions = self.transaction_pool.copy()
ProofOfWorkCopy(m) ==
    /\ miner[m].pc = "pow"
    /\ miner' = [miner EXCEPT ![m].pc = "search",
                              ![m].transactions = transaction_pool]
    /\ ret' = NoRet
    /\ UNCHANGED << chain, transaction_pool, neighbours, mining_semaphore,
                    sync_neighbours_semaphore, mining_timers, sync_timers,
                    resolver, syncer >>

\* BlockChain.proof_of_work, lines 155-159, on the copy taken at line 154
proof_of_work(transactions) ==
    PowSearch(transactions, hash(Last(chain)), 0)

ProofOfWorkSearch(m) ==
    /\ miner[m].pc = "search"
    /\ miner' = [miner EXCEPT ![m].pc = "found",
                              ![m].nonce = proof_of_work(miner[m].transactions)]
    /\ ret' = NoRet
    /\ UNCHANGED << chain, transaction_pool, neighbours, mining_semaphore,
                    sync_neighbours_semaphore, mining_timers, sync_timers,
                    resolver, syncer >>

\* mining(), line 170: previous_hash = self.hash(self.chain[-1])
MiningReadHash(m) ==
    /\ miner[m].pc = "found"
    /\ miner' = [miner EXCEPT ![m].pc = "create",
                              ![m].previous_hash = hash(Last(chain))]
    /\ ret' = NoRet
    /\ UNCHANGED << chain, transaction_pool, neighbours, mining_semaphore,
                    sync_neighbours_semaphore, mining_timers, sync_timers,
                    resolver, syncer >>

\* create_block that leaves the pending transactions out of the block
create_block_empty(timestamp, nonce, previous_hash) ==
    Block(timestamp, <<>>, nonce, previous_hash)

\* BlockChain.create_block, lines 65-72: the block is built on the pool as it
\* is now, appended, and the pool is reset
create_block(timestamp, nonce, previous_hash) ==
    Block(timestamp, transaction_pool, nonce, previous_hash)

CreateBlock(m, timestamp) ==
    /\ miner[m].pc = "create"
    /\ chain' = Append(chain, create_block(timestamp, miner[m].nonce,
                                           miner[m].previous_hash))
    /\ transaction_pool' = <<>>
    /\ miner' = [miner EXCEPT ![m] = [MinerIdle EXCEPT !.pc = "clear"]]
    /\ ret' = NoRet
    /\ UNCHANGED << neighbours, mining_semaphore, sync_neighbours_semaphore,
                    mining_timers, sync_timers, resolver, syncer >>

\* a start_mining that releases only after mining() returned: an exception
\* leaves the semaphore taken
MiningRaised_no_release(m) ==
    /\ miner' = [miner EXCEPT ![m] = MinerIdle]
    /\ mining_semaphore' = mining_semaphore
    /\ ret' = Ret(IF m = 0 THEN "start_mining" ELSE "mine", m, "raised")
    /\ UNCHANGED mining_timers

\* an exception leaves mining(): a /mine handler ends with it; in
\* start_mining the ExitStack callback releases the semaphore and no Timer
\* is started
MiningRaised(m) ==
    /\ miner' = [miner EXCEPT ![m] = MinerIdle]
    /\ mining_semaphore' = IF m = 0 THEN mining_semaphore + 1 ELSE mining_semaphore
    /\ ret' = Ret(IF m = 0 THEN "start_mining" ELSE "mine", m, "raised")
    /\ UNCHANGED mining_timers

\* create_block, lines 74-75: requests.delete to every neighbour
CreateBlockClearPeers(m, delivered) ==
    /\ miner[m].pc = "clear"
    /\ IF neighbours = <<>> \/ delivered
       THEN /\ miner' = [miner EXCEPT ![m].pc = "notify"]
            /\ ret' = NoRet
            /\ UNCHANGED << mining_semaphore, mining_timers >>
       ELSE MiningRaised(m)
    /\ UNCHANGED << chain, transaction_pool, neighbours, sync_neighbours_semaphore,
                    sync_timers, resolver, syncer >>

\* mining(), lines 174-177: requests.put to every neighbour, return True;
\* the /mine handler answers, start_mining goes on to line 185
MiningNotify(m, delivered) ==
    /\ miner[m].pc = "notify"
    /\ IF neighbours = <<>> \/ delivered
       THEN /\ miner' = [miner EXCEPT ![m] =
                           IF m = 0 THEN [MinerIdle EXCEPT !.pc = "timer"]
                           ELSE MinerIdle]
            /\ ret' = Ret("mine", m, "True")
            /\ UNCHANGED << mining_semaphore, mining_timers >>
       ELSE MiningRaised(m)
    /\ UNCHANGED << chain, transaction_pool, neighbours, sync_neighbours_semaphore,
                    sync_timers, resolver, syncer >>

\* start_mining, lines 185-186 and the ExitStack callback: the Timer is
\* started and the semaphore released (MINING_TIMER_SEC later at the
\* earliest the Timer fires)
StartMiningTimer ==
    /\ miner[0].pc = "timer"
    /\ mining_timers' = mining_timers + 1
    /\ mining_semaphore' = mining_semaphore + 1
    /\ miner' = [miner EXCEPT ![0] = MinerIdle]
    /\ ret' = Ret("start_mining", <<>>, "None")
    /\ UNCHANGED << chain, transaction_pool, neighbours, sync_neighbours_semaphore,
                    sync_timers, resolver, syncer >>

(***************************************************************************)
(* Fork choice                                                             *)
(***************************************************************************)
\* resolve_conflicts, lines 219-221 (PUT /consensus or run()): the loop
\* iterates over the neighbour list as it is now
ResolveRequest ==
    /\ resolver.pc = "idle"
    /\ resolver' = [pc |-> "fetch", longest_chain |-> <<>>,
                    max_length |-> Len(chain), todo |-> neighbours]
    /\ ret' = NoRet
    /\ UNCHANGED << chain, transaction_pool, neighbours, mining_semaphore,
                    sync_neighbours_semaphore, mining_timers, sync_timers,
                    miner, syncer >>

\* resolve_conflicts comparing with >= instead of >
resolve_iteration_ge(r, response) ==
    IF response.status_code = 200
    THEN IF Len(response.chain) >= r.max_length /\ valid_chain(response.chain)
         THEN [r EXCEPT !.max_length = Len(response.chain),
                        !.longest_chain = response.chain,
                        !.todo = Tail(r.todo)]
         ELSE [r EXCEPT !.todo = Tail(r.todo)]
    ELSE [r EXCEPT !.todo = Tail(r.todo)]

\* resolve_conflicts, lines 222-229: one iteration, response = what
\* requests.get produced (None stands for longest_chain = <<>>)
resolve_iteration(r, response) ==
    IF response.status_code = 200
    THEN IF Len(response.chain) > r.max_length /\ valid_chain(response.chain)
         THEN [r EXCEPT !.max_length = Len(response.chain),
                        !.longest_chain = response.chain,
                        !.todo = Tail(r.todo)]
         ELSE [r EXCEPT !.todo = Tail(r.todo)]
    ELSE [r EXCEPT !.todo = Tail(r.todo)]

ResolveFetch(response) ==
    /\ resolver.pc = "fetch"
    /\ resolver.todo # <<>>
    /\ IF response.status_code = 0
       THEN /\ resolver' = ResolverIdle
            /\ ret' = Ret("resolve_conflicts", <<>>, "raised")
       ELSE /\ resolver' = resolve_iteration(resolver, response)
            /\ ret' = NoRet
    /\ UNCHANGED << chain, transaction_pool, neighbours, mining_semaphore,
                    sync_neighbours_semaphore, mining_timers, sync_timers,
                    miner, syncer >>

\* resolve_conflicts, lines 231-237
ResolveFinish ==
    /\ resolver.pc = "fetch"
    /\ resolver.todo = <<>>
    /\ IF resolver.longest_chain # <<>>
       THEN /\ chain' = resolver.longest_chain
            /\ ret' = Ret("resolve_conflicts", <<>>, "True")
       ELSE /\ chain' = chain
            /\ ret' = Ret("resolve_conflicts", <<>>, "False")
    /\ resolver' = ResolverIdle
    /\ UNCHANGED << transaction_pool, neighbours, mining_semaphore,
                    sync_neighbours_semaphore, mining_timers, sync_timers,
                    miner, syncer >>

(***************************************************************************)
(* Neighbour synchronisation                                               *)
(***************************************************************************)
\* sync_neighbours, line 55, called by run(): acquire succeeds
SyncRequest ==
    /\ acquire(sync_neighbours_semaphore)
    /\ sync_timers < MaxTimers
    /\ sync_neighbours_semaphore' = sync_neighbours_semaphore - 1
    /\ syncer' = "set_neighbours"
    /\ ret' = NoRet
    /\ UNCHANGED << chain, transaction_pool, neighbours, mining_semaphore,
                    mining_timers, sync_timers, miner, resolver >>

\* sync_neighbours, lines 55-56: acquire(blocking=False) fails
SyncBusy ==
    /\ ~acquire(sync_neighbours_semaphore)
    /\ ret' = Ret("sync_neighbours", <<>>, "None")
    /\ UNCHANGED << chain, transaction_pool, neighbours, mining_semaphore,
                    sync_neighbours_semaphore, mining_timers, sync_timers,
                    miner, resolver, syncer >>

\* a Timer(BLOCKCHAIN_NEIGHBOURS_SYNC_TIME_SEC, self.sync_neighbours) fires
SyncTimerFires ==
    /\ sync_timers > 0
    /\ acquire(sync_neighbours_semaphore)
    /\ sync_timers' = sync_timers - 1
    /\ sync_neighbours_semaphore' = sync_neighbours_semaphore - 1
    /\ syncer' = "set_neighbours"
    /\ ret' = NoRet
    /\ UNCHANGED << chain, transaction_pool, neighbours, mining_semaphore,
                    mining_timers, miner, resolver >>

SyncTimerFiresBusy ==
    /\ sync_timers > 0
    /\ ~acquire(sync_neighbours_semaphore)
    /\ sync_timers' = sync_timers - 1
    /\ ret' = Ret("sync_neighbours", <<>>, "None")
    /\ UNCHANGED << chain, transaction_pool, neighbours, mining_semaphore,
                    sync_neighbours_semaphore, mining_timers, miner, resolver,
                    syncer >>

\* set_neighbours, lines 46-49: reachable = the addresses that accept a
\* connection (is_found_host)
SetNeighbours(reachable) ==
    /\ syncer = "set_neighbours"
    /\ neighbours' = find_neighbours(reachable)
    /\ syncer' = "timer"
    /\ ret' = NoRet
    /\ UNCHANGED << chain, transaction_pool, mining_semaphore,
                    sync_neighbours_semaphore, mining_timers, sync_timers,
                    miner, resolver >>

\* sync_neighbours, lines 60-62 and the ExitStack callback
SyncTimer ==
    /\ syncer = "timer"
    /\ sync_timers' = sync_timers + 1
    /\ sync_neighbours_semaphore' = sync_neighbours_semaphore + 1
    /\ syncer' = "idle"
    /\ ret' = Ret("sync_neighbours", <<>>, "None")
    /\ UNCHANGED << chain, transaction_pool, neighbours, mining_semaphore,
                    mining_timers, miner, resolver >>

(***************************************************************************)
(* Specifications                                                          *)
(***************************************************************************)
Timestamps == 1..MaxTime

Reachable == SUBSET {PortSeq[i] : i \in DOMAIN PortSeq}

\* the steps of mining() after its first line
MiningStep(m) ==
    \/ ProofOfWorkCopy(m)
    \/ ProofOfWorkSearch(m)
    \/ MiningReadHash(m)
    \/ \E t \in Timestamps : CreateBlock(m, t)
    \/ \E d \in BOOLEAN : CreateBlockClearPeers(m, d)
    \/ \E d \in BOOLEAN : MiningNotify(m, d)

\* run() calls sync_neighbours once; later calls come from its Timer
SyncOnce ==
    /\ sync_timers = 0
    /\ SyncRequest

\* run() calls start_mining once
StartMiningOnce ==
    /\ mining_timers = 0
    /\ StartMiningRequest

\* the submitted (non-reward) transactions that are pending
Pending ==
    Cardinality({i \in 1..Len(transaction_pool) :
                   transaction_pool[i] # RewardTransaction})

\* Spec: the handlers of /transactions and /mine and the mining task as
\* concurrent threads of a node whose neighbour list is still empty, in the
\* time before the started Timer fires
Next ==
    \/ (\E req \in RaceRequests : Pending < MaxRacePool /\ AddTransactionRequest(req))
         /\ UNCHANGED hist
    \/ ClearPoolRequest /\ UNCHANGED hist
    \/ (\E m \in Miners : Len(chain) < MaxRaceChain /\ MineRequest(m))
         /\ UNCHANGED hist
    \/ (Len(chain) < MaxRaceChain /\ StartMiningOnce) /\ UNCHANGED hist
    \/ StartMiningBody /\ UNCHANGED hist
    \/ (\E m \in Miners : MiningStep(m)) /\ UNCHANGED hist
    \/ StartMiningTimer /\ UNCHANGED hist

Spec == Init /\ [][Next]_vars

AllIdle ==
    /\ \A m \in Miners : miner[m].pc = "idle"
    /\ resolver.pc = "idle"
    /\ syncer = "idle"

\* SpecSeq: one operation at a time, each run to its end before the next
\* begins.  While an operation runs, hist keeps the ledger it started on and
\* the answers it has received.
HistBegin ==
    hist' = IF AllIdle' THEN NoHist
            ELSE [pool |-> transaction_pool, chain |-> chain, responses |-> <<>>]

HistKeep == hist' = IF AllIdle' THEN NoHist ELSE hist

HistAnswer(response) ==
    hist' = IF AllIdle' THEN NoHist
            ELSE [hist EXCEPT !.responses = Append(@, response)]

NextSeq ==
    \/ AllIdle /\ (\E req \in AllRequests :
                     Pending < MaxPool /\ AddTransactionRequest(req)) /\ HistBegin
    \/ AllIdle /\ (\E req \in FewRequests, d \in BOOLEAN :
                     Pending < MaxPool /\ CreateTransactionRequest(req, d))
         /\ HistBegin
    \/ AllIdle /\ ClearPoolRequest /\ HistBegin
    \/ AllIdle /\ (\E m \in Miners : Len(chain) < MaxChain /\ MineRequest(m))
         /\ HistBegin
    \/ AllIdle /\ ResolveRequest /\ HistBegin
    \/ AllIdle /\ SyncOnce /\ HistBegin
    \/ (\E m \in Miners : MiningStep(m)) /\ HistKeep
    \/ \E response \in Responses : ResolveFetch(response) /\ HistAnswer(response)
    \/ ResolveFinish /\ HistKeep
    \/ (\E reachable \in Reachable : SetNeighbours(reachable)) /\ HistKeep
    \/ SyncTimer /\ HistKeep

SpecSeq == Init /\ [][NextSeq]_vars

\* SpecTasks: the two self-rescheduling tasks, started by run() and by
\* GET /mine/start, their Timers firing at any time
NextTasks ==
    \/ (Len(chain) < MaxChain /\ StartMiningRequest) /\ UNCHANGED hist
    \/ StartMiningBusy /\ UNCHANGED hist
    \/ (Len(chain) < MaxChain /\ MiningTimerFires) /\ UNCHANGED hist
    \/ MiningTimerFiresBusy /\ UNCHANGED hist
    \/ StartMiningBody /\ UNCHANGED hist
    \/ MiningStep(0) /\ UNCHANGED hist
    \/ StartMiningTimer /\ UNCHANGED hist
    \/ SyncRequest /\ UNCHANGED hist
    \/ SyncBusy /\ UNCHANGED hist
    \/ SyncTimerFires /\ UNCHANGED hist
    \/ SyncTimerFiresBusy /\ UNCHANGED hist
    \/ (\E reachable \in Reachable : SetNeighbours(reachable)) /\ UNCHANGED hist
    \/ SyncTimer /\ UNCHANGED hist

SpecTasks == Init /\ [][NextTasks]_vars

\* SpecFork: resolve_conflicts (PUT /consensus) concurrent with a /mine
\* handler, after run() has filled the neighbour list
NextFork ==
    \/ (Len(chain) < MaxRaceChain /\ MineRequest(1)) /\ UNCHANGED hist
    \/ MiningStep(1) /\ UNCHANGED hist
    \/ ResolveRequest /\ UNCHANGED hist
    \/ (\E response \in Responses : ResolveFetch(response)) /\ UNCHANGED hist
    \/ ResolveFinish /\ UNCHANGED hist
    \/ SyncOnce /\ UNCHANGED hist
    \/ (\E reachable \in Reachable : SetNeighbours(reachable)) /\ UNCHANGED hist
    \/ SyncTimer /\ UNCHANGED hist

SpecFork == Init /\ [][NextFork]_vars

\* valid_chain(chain) called on a candidate chain, as resolve_conflicts does
\* at line 227
ValidChainCall(c) ==
    /\ ret' = Ret("valid_chain", c, IF valid_chain(c) THEN "True" ELSE "False")
    /\ UNCHANGED << chain, transaction_pool, neighbours, mining_semaphore,
                    sync_neighbours_semaphore, mining_timers, sync_timers,
                    miner, resolver, syncer >>

\* SpecValidChain: valid_chain applied to every candidate chain
NextValidChain ==
    \E c \in CandidateChains : ValidChainCall(c) /\ UNCHANGED hist

SpecValidChain == Init /\ [][NextValidChain]_vars

\* the request bodies of SpecLedger: a grant of the system sender to "A" and
\* a signed payment of "A" to the miner
LedgerRequests ==
    { Request(MINING_SENDER, "A", MaxValue, PublicKeyOf("k1"), NoSignature),
      Request("A", blockchain_address, MaxValue, PublicKeyOf("k1"),
              generate_signature("k1", Transaction("A", blockchain_address, MaxValue))) }

\* SpecLedger: a node without neighbours whose transactions all come in
\* through add_transaction (PUT /transactions) and whose blocks all come
\* from its own mining (GET /mine), one operation at a time
NextLedger ==
    \/ AllIdle /\ (\E req \in LedgerRequests :
                     Pending < MaxPool /\ AddTransactionRequest(req))
         /\ UNCHANGED hist
    \/ AllIdle /\ (\E m \in Miners : Len(chain) < MaxChain /\ MineRequest(m))
         /\ UNCHANGED hist
    \/ (\E m \in Miners : MiningStep(m)) /\ UNCHANGED hist

SpecLedger == Init /\ [][NextLedger]_vars

(***************************************************************************)
(* Properties                                                              *)
(***************************************************************************)
ProofHolds(b) ==
    valid_proof(b.transactions, b.previous_hash, b.nonce, MINING_DIFFICULTY)

\* C1: in every reachable state, every block after the first of the local
\* chain carries the hash of its predecessor and a valid proof of work
C1_ChainLinkedAndProved ==
    \A i \in 2..Len(chain) :
        /\ chain[i].previous_hash = hash(chain[i - 1])
        /\ ProofHolds(chain[i])

\* C2: whenever create_block runs inside mining(), the block it appends holds
\* exactly the transactions proof_of_work copied, and what was admitted after
\* the copy is still pending
C2_BlockIsSnapshot ==
    [][\A m \in Miners :
         (miner[m].pc = "create" /\ miner'[m].pc = "clear")
         => /\ Last(chain').transactions = miner[m].transactions
            /\ (Len(transaction_pool) > Len(miner[m].transactions)
                  => transaction_pool' # <<>>)]_vars

\* C3: when mining() returns and nothing else ran meanwhile, the chain is the
\* chain it started on plus one block that holds the pool it started on
\* followed by one reward, linked to the former last block, with a valid proof,
\* and the pool is empty
C3_MiningAlone ==
    [][(ret'.op = "mine" /\ ret'.val = "True")
       => LET b == Last(chain')
              N == Len(hist.chain)
          IN  /\ Len(chain') = N + 1
              /\ SubSeq(chain', 1, N) = hist.chain
              /\ b.transactions = Append(hist.pool, RewardTransaction)
              /\ b.previous_hash = hash(Last(hist.chain))
              /\ ProofHolds(b)
              /\ transaction_pool' = <<>>]_vars

\* a /mine request has returned on a chain of three blocks whose last block
\* holds two submitted transactions and the reward
C3_Witness ==
    /\ ret.op = "mine"
    /\ ret.val = "True"
    /\ Len(chain) = 3
    /\ Len(Last(chain).transactions) = 3
    /\ transaction_pool = <<>>

\* C4: add_transaction accepts every transaction of MINING_SENDER; of another
\* sender it accepts exactly those whose signature verifies and whose value the
\* sender's balance covers, and it returns false for the others
C4_Admission ==
    [][ret'.op = "add_transaction"
       => LET req == ret'.arg
              t == RequestTransaction(req)
              accepted ==
                 \/ req.sender_blockchain_address = MINING_SENDER
                 \/ /\ SignatureVerifies(req.sender_public_key, req.signature, t)
                    /\ calculate_total_amount(chain, req.sender_blockchain_address)
                         >= req.value
          IN  IF accepted
              THEN ret'.val = "True" /\ transaction_pool' = Append(transaction_pool, t)
              ELSE ret'.val = "False" /\ transaction_pool' = transaction_pool]_vars

\* C5: add_transaction never ends with an exception; for a signature that
\* does not verify it returns false
C5_NeverRaises ==
    [][ret'.op = "add_transaction"
       => /\ ret'.val # "raised"
          /\ LET req == ret'.arg
             IN  (/\ req.sender_blockchain_address # MINING_SENDER
                  /\ ~SignatureVerifies(req.sender_public_key, req.signature,
                                        RequestTransaction(req)))
                 => ret'.val = "False"]_vars

Answers == hist.responses

\* the answers that are longer than the chain resolve_conflicts started on
\* and pass valid_chain
Candidates ==
    {i \in 1..Len(Answers) :
       /\ Len(Answers[i].chain) > Len(hist.chain)
       /\ valid_chain(Answers[i].chain)}

\* the first of the longest candidates
BestCandidate ==
    CHOOSE i \in Candidates :
       \A j \in Candidates :
          \/ Len(Answers[j].chain) < Len(Answers[i].chain)
          \/ Len(Answers[j].chain) = Len(Answers[i].chain) /\ i <= j

\* C6: when every neighbour answered, resolve_conflicts returns true and
\* installs the first of the longest chains that are longer than the local one
\* and valid, if there is one, and otherwise returns false and leaves the chain
C6_ForkChoice ==
    [][(/\ ret'.op = "resolve_conflicts"
        /\ ret'.val # "raised"
        /\ \A i \in 1..Len(Answers) : Answers[i].status_code = 200)
       => IF Candidates # {}
          THEN ret'.val = "True" /\ chain' = Answers[BestCandidate].chain
          ELSE ret'.val = "False" /\ chain' = hist.chain /\ chain' = chain]_vars

\* resolve_conflicts has heard two neighbours, the first with a longer chain
\* that fails valid_chain, the second with a shorter valid chain that is
\* longer than the local one, and is about to install the second
C6_Witness ==
    /\ resolver.pc = "fetch"
    /\ resolver.todo = <<>>
    /\ Len(Answers) = 2
    /\ Answers[1].status_code = 200
    /\ Answers[2].status_code = 200
    /\ Len(Answers[1].chain) > Len(Answers[2].chain)
    /\ ~valid_chain(Answers[1].chain)
    /\ Len(Answers[2].chain) > Len(chain)
    /\ resolver.longest_chain = Answers[2].chain

\* C7: the chain resolve_conflicts installs is longer than the chain it
\* replaces
C7_StrictlyLonger ==
    [][(ret'.op = "resolve_conflicts" /\ ret'.val = "True")
       => Len(chain') > Len(chain)]_vars

\* C8: resolve_conflicts returns a boolean whatever happens to the fetches
C8_FetchFailureSkipped ==
    [][ret'.op = "resolve_conflicts" => ret'.val \in {"True", "False"}]_vars

\* C9: an invocation of a task takes the semaphore and enters the guarded
\* body only when no other is inside, the semaphore is taken exactly while one
\* is inside, and an
\* invocation that finds it taken returns leaving chain, pool, neighbour list,
\* the running execution and the semaphores as they are and starting no Timer
C9_TaskExclusion ==
    [][/\ (mining_semaphore' < mining_semaphore
             => miner[0].pc = "idle" /\ miner'[0].pc = "acquired")
       /\ (sync_neighbours_semaphore' < sync_neighbours_semaphore
             => syncer = "idle" /\ syncer' = "set_neighbours")
       /\ ((miner'[0].pc = "idle") <=> (mining_semaphore' = 1))
       /\ ((syncer' = "idle") <=> (sync_neighbours_semaphore' = 1))
       /\ mining_semaphore' \in {0, 1}
       /\ sync_neighbours_semaphore' \in {0, 1}
       /\ (/\ ret'.op = "start_mining"
           /\ mining_semaphore = 0
           /\ miner[0].pc # "timer"
           /\ ret'.val = "None")
          => /\ UNCHANGED << chain, transaction_pool, neighbours, miner, syncer,
                             mining_semaphore, sync_neighbours_semaphore,
                             sync_timers >>
             /\ mining_timers' <= mining_timers
       /\ (/\ ret'.op = "sync_neighbours"
           /\ sync_neighbours_semaphore = 0
           /\ syncer # "timer")
          => /\ UNCHANGED << chain, transaction_pool, neighbours, miner, syncer,
                             mining_semaphore, sync_neighbours_semaphore,
                             mining_timers >>
             /\ sync_timers' <= sync_timers]_vars

\* an invocation of start_mining has just returned without doing anything
\* while the holder of the semaphore is searching for a nonce
C9_Witness ==
    /\ ret.op = "start_mining"
    /\ ret.val = "None"
    /\ miner[0].pc = "search"
    /\ mining_semaphore = 0

MiningInFlight ==
    {m \in Miners : miner[m].pc \in {"pow", "search", "found", "create",
                                    "clear", "notify"}}

\* C10: at most one execution of mining() is in flight
C10_OneMiningAtATime == Cardinality(MiningInFlight) <= 1

IsPrefix(p, q) == Len(p) <= Len(q) /\ SubSeq(q, 1, Len(p)) = p

\* the step in which an execution of mining() runs create_block
CreateBlockStep == \E m \in Miners : miner[m].pc = "create" /\ miner'[m].pc = "clear"

\* C11: the pool loses a transaction only in a step of the node's own
\* create_block; every other step leaves the pool it found as a prefix of the
\* pool it leaves
C11_OnlyCreateBlockClears ==
    [][~IsPrefix(transaction_pool, transaction_pool') => CreateBlockStep]_vars

\* C12: no broadcast lets an exception out: mining() returns true with the
\* block appended and the pool cleared, create_transaction returns what
\* add_transaction returned
C12_BroadcastFailureSwallowed ==
    [][/\ (ret'.op \in {"mine", "start_mining"} => ret'.val # "raised")
       /\ (ret'.op = "create_transaction"
             => /\ ret'.val # "raised"
                /\ (transaction_pool' # transaction_pool => ret'.val = "True"))]_vars

\* C13: whenever a task releases its semaphore, it has started exactly one
\* Timer for its next invocation
C13_TaskReschedules ==
    [][/\ (mining_semaphore' > mining_semaphore
             => mining_timers' = mining_timers + 1)
       /\ (sync_neighbours_semaphore' > sync_neighbours_semaphore
             => sync_timers' = sync_timers + 1)]_vars

\* every transaction of every block of c, in chain order
ChainTransactions(c) == Flatten([i \in 1..Len(c) |-> c[i].transactions])

RECURSIVE ValueSum(_)
ValueSum(txs) == IF txs = <<>> THEN 0 ELSE Head(txs).value + ValueSum(Tail(txs))

\* what address a received in c minus what it sent
ReceivedMinusSent(c, a) ==
    ValueSum(SelectSeq(ChainTransactions(c),
                       LAMBDA t : t.recipient_blockchain_address = a))
    - ValueSum(SelectSeq(ChainTransactions(c),
                         LAMBDA t : t.sender_blockchain_address = a))

\* the step in which resolve_conflicts installs a neighbour's chain
ReplaceChainStep == resolver.pc = "fetch" /\ resolver'.pc = "idle" /\ ret'.val = "True"

\* C14: the balance of every address is what it received in the blocks of the
\* chain minus what it sent there; add_transaction changes no balance, and a
\* balance changes only when create_block runs or the chain is replaced
C14_Balance ==
    [][/\ \A a \in Addresses :
            calculate_total_amount(chain', a) = ReceivedMinusSent(chain', a)
       /\ (ret'.op = "add_transaction"
             => \A a \in Addresses :
                  calculate_total_amount(chain', a) = calculate_total_amount(chain, a))
       /\ ((\E a \in Addresses :
              calculate_total_amount(chain', a) # calculate_total_amount(chain, a))
             => CreateBlockStep \/ ReplaceChainStep)]_vars

\* add_transaction has just admitted a transaction to the pool of a node
\* whose chain holds a transfer of "A" to itself and a reward of the miner:
\* "A" still owns the one coin it received before
C14_Witness ==
    /\ ret.op = "add_transaction"
    /\ ret.val = "True"
    /\ transaction_pool # <<>>
    /\ \E i \in 1..Len(ChainTransactions(chain)) :
          ChainTransactions(chain)[i] = Transaction("A", "A", 1)
    /\ calculate_total_amount(chain, "A") = 1
    /\ calculate_total_amount(chain, blockchain_address) = 2
    /\ calculate_total_amount(chain, MINING_SENDER) = -3

\* C15: valid_chain answers true exactly for the chains in which every block
\* after the first carries the hash of its predecessor and a valid proof; the
\* first block's own proof and previous_hash are not looked at, and a chain of
\* one block is valid
C15_ValidChainIff ==
    ret.op = "valid_chain"
    => LET c == ret.arg
       IN  /\ ret.val \in {"True", "False"}
           /\ (ret.val = "True")
                <=> \A i \in 2..Len(c) :
                       /\ c[i].previous_hash = hash(c[i - 1])
                       /\ ProofHolds(c[i])
           /\ (Len(c) = 1 => ret.val = "True")

\* valid_chain has accepted a chain of full length whose first block has a
\* previous_hash that is not the hash of the empty map and fails its own proof
C15_Witness ==
    /\ ret.op = "valid_chain"
    /\ ret.val = "True"
    /\ Len(ret.arg) = MaxPeerLen
    /\ ret.arg[1].previous_hash # hash(EmptyMap)
    /\ ~ProofHolds(ret.arg[1])

\* the ledger and the semaphores as the constructor has to leave them
Constructed ==
    /\ Len(chain) = 1
    /\ chain[1].nonce = 0
    /\ chain[1].transactions = <<>>
    /\ chain[1].previous_hash = HexDigest(DigestFrom(1, <<>>))
    /\ transaction_pool = <<>>
    /\ mining_semaphore = 1
    /\ sync_neighbours_semaphore = 1

\* C16: every behaviour starts in a state with one block of nonce 0, no
\* transactions and the hash of the empty map as previous_hash, an empty pool
\* and both semaphores free
C16_Constructed == Constructed /\ [][TRUE]_vars

\* the node has been constructed and nothing has run yet: no Timer, no
\* execution, no neighbour, and the start of the mining task would acquire
C16_Witness ==
    /\ Constructed
    /\ ret = NoRet
    /\ AllIdle
    /\ neighbours = <<>>
    /\ mining_timers = 0
    /\ sync_timers = 0
    /\ ENABLED StartMiningRequest

\* the step in which an execution of mining() runs the search of
\* proof_of_work on its copy of the pool
ProofOfWorkStep(m) == miner[m].pc = "search" /\ miner'[m].pc = "found"

\* C17: the nonce proof_of_work returns is a proof for its copy of the pool
\* and the hash of the last block, no smaller nonce is one, and the search
\* changes neither the pool nor the chain
C17_SmallestNonce ==
    [][\A m \in Miners :
         ProofOfWorkStep(m)
         => LET n == miner'[m].nonce
                previous_hash == hash(chain[Len(chain)])
            IN  /\ n >= 0
                /\ valid_proof(miner[m].transactions, previous_hash, n,
                               MINING_DIFFICULTY)
                /\ \A k \in 0..(n - 1) :
                      ~valid_proof(miner[m].transactions, previous_hash, k,
                                   MINING_DIFFICULTY)
                /\ UNCHANGED << chain, transaction_pool >>]_vars

\* proof_of_work has returned a nonce above 2 for a pool of two submitted
\* transactions and the reward, on a chain of two blocks
C17_Witness ==
    \E m \in Miners :
       /\ miner[m].pc = "found"
       /\ miner[m].nonce > 2
       /\ Len(miner[m].transactions) = 3
       /\ Len(chain) = 2

\* C18: add_transaction leaves the chain; returning false it leaves the pool;
\* returning true it leaves the pool it found with this one transaction
\* appended, whether or not the same transaction was pending already
C18_AddTransactionFrame ==
    [][ret'.op = "add_transaction"
       => /\ chain' = chain
          /\ (ret'.val = "False" => transaction_pool' = transaction_pool)
          /\ (ret'.val = "True"
                => /\ Len(transaction_pool') = Len(transaction_pool) + 1
                   /\ SubSeq(transaction_pool', 1, Len(transaction_pool))
                        = transaction_pool
                   /\ transaction_pool'[Len(transaction_pool')]
                        = [sender_blockchain_address |->
                               ret'.arg.sender_blockchain_address,
                           recipient_blockchain_address |->
                               ret'.arg.recipient_blockchain_address,
                           value |-> ret'.arg.value])]_vars

\* add_transaction has just admitted a signed transaction of the miner that
\* was pending already: the pool holds it twice
C18_Witness ==
    /\ ret.op = "add_transaction"
    /\ ret.val = "True"
    /\ ret.arg.sender_blockchain_address = blockchain_address
    /\ Len(transaction_pool) = 2
    /\ transaction_pool[1] = transaction_pool[2]

\* C19: no address but MINING_SENDER has a negative balance
C19_NoNegativeBalance ==
    \A a \in Addresses \ {MINING_SENDER} : calculate_total_amount(chain, a) >= 0

\* C20: at most one Timer of the mining task is started and not yet fired
C20_OneMiningTimer == mining_timers <= 1

\* C21: while no invocation of a task is inside its guarded body the task's
\* semaphore is free, also after an invocation that ended with an exception,
\* and no semaphore ever counts more than 1
C21_SemaphoreFreeWhenIdle ==
    /\ (miner[0].pc = "idle" => mining_semaphore = 1)
    /\ (syncer = "idle" => sync_neighbours_semaphore = 1)
    /\ mining_semaphore <= 1
    /\ sync_neighbours_semaphore <= 1

\* an invocation of start_mining has just ended with the exception of a
\* broadcast, after its block was appended: the semaphore is free again and
\* the next invocation can acquire it
C21_Witness ==
    /\ ret.op = "start_mining"
    /\ ret.val = "raised"
    /\ Len(chain) > 1
    /\ miner[0].pc = "idle"
    /\ mining_semaphore = 1
    /\ ENABLED StartMiningRequest

=============================================================================
